---- MODULE Spec2Model ----
(***************************************************************************)
(* Double-entry ledger: the transaction service (execute_deposit,          *)
(* execute_withdrawal, execute_transfer), the per-request unit of work of  *)
(* get_db, and the storage constraints of the alembic migrations, with     *)
(* several requests running concurrently under REPEATABLE READ.            *)
(*                                                                         *)
(* A unit of work reads one snapshot, fixed by its first query, and its    *)
(* writes become visible to others at COMMIT. A request is therefore two   *)
(* steps: the handler (all its reads and its uncommitted writes, at the    *)
(* snapshot), then the commit or the rollback of get_db.                   *)
(*                                                                         *)
(* Amounts are integers: the number of minor units of a Numeric(19,4).     *)
(***************************************************************************)
EXTENDS Integers, FiniteSets, Sequences, TLC

\* ------------------------------------------------------------------ bounds
\* Requests issued in one behaviour.
MaxReq == 3
\* Concurrent workers (one session per request in flight).
Sessions == {1, 2}
\* Account ids a caller may pass; "a9" names no row of accounts.
AccountIds == {"a1", "a2", "a3", "a4", "a9"}
\* Currency strings a caller may pass to the service.
Currencies == {"USD", "EUR", "usd"}
\* Amounts a caller may pass: zero (rejected) and positive.
Amounts == {0, 1, 2}

NoAccount == "none"

VARIABLES
    accounts,                      \* table accounts: id -> [status, currency]
    transactions,                  \* table transactions, committed rows
    ledger_entries,                \* table ledger_entries, committed rows
    enforce_double_entry_balance,  \* whether revision 003's trigger exists
    session,                       \* per worker: the request and its unit of work
    requests,                      \* number of requests issued so far
    next_uuid,                     \* the next fresh transaction id (uuid.uuid4)
    created_at,                    \* column created_at of the entries that are listed
    results                        \* what the threads of a race were answered

vars == <<accounts, transactions, ledger_entries, enforce_double_entry_balance,
          session, requests, next_uuid, created_at, results>>

\* ------------------------------------------------------------ pure helpers

\* str.upper() on the currency strings of Currencies.
upper(c) == IF c = "usd" THEN "USD" ELSE c

\* Variant: the table accepts any currency string.
transaction_currency_check_any(c) == TRUE

\* The CHECK currency ~ '^[A-Z]{3}$' of table transactions.
transaction_currency_check(c) == c \in {"USD", "EUR"}

\* The CHECK amount > 0 of table transactions.
positive_amount(a) == a > 0

\* Variant: the sign of a debit is lost.
signed_amount_unsigned(e) == e.amount

\* CASE entry_type WHEN 'credit' THEN amount WHEN 'debit' THEN -amount.
signed_amount(e) ==
    IF e.entry_type = "credit" THEN e.amount ELSE 0 - e.amount

RECURSIVE SumSigned(_)
SumSigned(S) ==
    IF S = {} THEN 0
    ELSE LET e == CHOOSE x \in S : TRUE
         IN  signed_amount(e) + SumSigned(S \ {e})

RECURSIVE SumAmount(_)
SumAmount(S) ==
    IF S = {} THEN 0
    ELSE LET e == CHOOSE x \in S : TRUE
         IN  e.amount + SumAmount(S \ {e})

\* View account_balances: COALESCE(SUM(CASE ...), 0) per account.
account_balances(a) ==
    SumSigned({e \in ledger_entries : e.account_id = a})

\* AccountService.get_account: whether the row exists (None otherwise).
get_account(id) == id \in DOMAIN accounts

\* LedgerService.calculate_balance over the rows a query sees.
calculate_balance(rows, a) ==
    SumSigned({e \in rows : e.account_id = a})

\* LedgerService.verify_double_entry over the rows a query sees.
verify_double_entry(rows, t) ==
    SumSigned({e \in rows : e.transaction_id = t}) = 0

\* Function check_double_entry_balance, run for one inserted row NEW at commit:
\* TRUE when it raises.
check_double_entry_balance(rows, new) ==
    SumSigned({e \in rows : e.transaction_id = new.transaction_id}) # 0

\* -------------------------------------------------------------------- Init

\* A worker with no request: a closed session.
Idle ==
    [pc |-> "idle", op |-> "none",
     txn |-> {}, flushed |-> {}, pending |-> {},
     error |-> "none", detail |-> <<>>, snapshot |-> <<>>]

Init ==
    /\ accounts = [a \in {"a1", "a2", "a3", "a4"} |->
                     [status   |-> IF a = "a3" THEN "frozen" ELSE "active",
                      currency |-> IF a = "a4" THEN "EUR" ELSE "USD"]]
    /\ transactions = {}
    /\ ledger_entries = {}
    /\ enforce_double_entry_balance = FALSE
    /\ session = [s \in Sessions |-> Idle]
    /\ requests = 0
    /\ next_uuid = 1
    /\ created_at = <<>>
    /\ results = {}

\* ------------------------------------------------------------- the service

\* raise ValueError(msg), or a database error: what the handler leaves behind
\* is the error and the session.
Raised(op, msg) == [Idle EXCEPT !.pc = "raised", !.op = op, !.error = msg]

\* Transaction(...) of create_transaction, lines 29-36.
Transaction(id, type, amount, currency, account_id, source_account_id, destination_account_id) ==
    [id |-> id, type |-> type, status |-> "pending",
     amount |-> amount, currency |-> currency,
     account_id |-> account_id,
     source_account_id |-> source_account_id,
     destination_account_id |-> destination_account_id,
     completed_at |-> FALSE]

\* db.flush() of create_transaction, line 39: the INSERT, which the CHECK
\* constraints of table transactions accept or reject.
flush_accepts(transaction_obj) ==
    /\ positive_amount(transaction_obj.amount)
    /\ transaction_currency_check(transaction_obj.currency)

\* Variant: the status is set and the time of completion is not.
Completed_without_timestamp(t) == [t EXCEPT !.status = "completed"]

\* Variant: the status of the transaction is left as created.
Completed_left_pending(t) == t

\* transaction_obj.status = 'completed'; completed_at = utcnow().
Completed(t) == [t EXCEPT !.status = "completed", !.completed_at = TRUE]

LedgerEntry(id, account_id, transaction_id, entry_type, amount) ==
    [id |-> id, account_id |-> account_id, transaction_id |-> transaction_id,
     entry_type |-> entry_type, amount |-> amount]

\* LedgerService.create_ledger_entries: a debit on debit_account_id and a
\* credit on credit_account_id, written to the database.
create_ledger_entries(transaction_id, debit_account_id, credit_account_id, amount) ==
    { LedgerEntry(<<transaction_id, 1>>, debit_account_id, transaction_id,
                  "debit", amount),
      LedgerEntry(<<transaction_id, 2>>, credit_account_id, transaction_id,
                  "credit", amount) }

\* Variant: the status of the account is not looked at.
account_error_any_status(account_id, currency) ==
    IF ~ get_account(account_id) THEN "Account does not exist"
    ELSE IF accounts[account_id].currency # upper(currency)
         THEN "Account currency does not match"
    ELSE "none"

\* Variant: the currency is compared before the status is looked at.
account_error_currency_first(account_id, currency) ==
    IF ~ get_account(account_id) THEN "Account does not exist"
    ELSE IF accounts[account_id].currency # upper(currency)
         THEN "Account currency does not match"
    ELSE IF accounts[account_id].status # "active" THEN "Account is not active"
    ELSE "none"

\* The error of the account checks of execute_deposit / execute_withdrawal,
\* lines 149-158 and 206-215, or "none".
account_error(account_id, currency) ==
    IF ~ get_account(account_id) THEN "Account does not exist"
    ELSE IF accounts[account_id].status # "active" THEN "Account is not active"
    ELSE IF accounts[account_id].currency # upper(currency)
         THEN "Account currency does not match"
    ELSE "none"

\* The error of the account checks of execute_transfer, lines 67-87, or "none".
transfer_error(source_account_id, destination_account_id, currency) ==
    IF ~ get_account(source_account_id) THEN "Source account does not exist"
    ELSE IF accounts[source_account_id].status # "active"
         THEN "Source account is not active"
    ELSE IF ~ get_account(destination_account_id)
         THEN "Destination account does not exist"
    ELSE IF accounts[destination_account_id].status # "active"
         THEN "Destination account is not active"
    ELSE IF accounts[source_account_id].currency # upper(currency)
         THEN "Source account currency does not match"
    ELSE IF accounts[destination_account_id].currency # upper(currency)
         THEN "Destination account currency does not match"
    ELSE "none"

\* f"Insufficient funds. Available: {current_balance}, Required: {amount}"
InsufficientFunds(op, current_balance, amount) ==
    [Raised(op, "Insufficient funds") EXCEPT !.detail = <<current_balance, amount>>]

\* Variant: the funds are not checked.
insufficient_unchecked(current_balance, amount) == FALSE

\* Variant: the funds check only asks for a positive balance.
insufficient_nonpositive(current_balance, amount) == current_balance <= 0

\* Variant: the funds check with <=, which rejects the whole balance.
insufficient_le(current_balance, amount) == current_balance <= amount

\* The funds check, lines 93 and 221: current_balance < amount.
insufficient(current_balance, amount) == current_balance < amount

\* Variant: a deposit posts a debit.
deposit_entry_debit(id, account_id, amount) ==
    LedgerEntry(<<id, 1>>, account_id, id, "debit", amount)

\* Lines 171-176: the credit entry of a deposit.
deposit_entry(id, account_id, amount) ==
    LedgerEntry(<<id, 1>>, account_id, id, "credit", amount)

\* Lines 235-240: the debit entry of a withdrawal.
withdrawal_entry(id, account_id, amount) ==
    LedgerEntry(<<id, 1>>, account_id, id, "debit", amount)

\* Variant: both entries of a transfer are posted to the source account.
transfer_entries_same_account(id, source_account_id, destination_account_id, amount) ==
    create_ledger_entries(id, source_account_id, source_account_id, amount)

\* Variant: the debit and the credit accounts are exchanged.
transfer_entries_swapped(id, source_account_id, destination_account_id, amount) ==
    create_ledger_entries(id, destination_account_id, source_account_id, amount)

\* Lines 110-117: the call of create_ledger_entries by execute_transfer.
transfer_entries(id, source_account_id, destination_account_id, amount) ==
    create_ledger_entries(id, source_account_id, destination_account_id, amount)

\* Variant: the amount of a transfer is not checked.
transfer_precheck_any_amount(source_account_id, destination_account_id, amount) ==
    IF source_account_id = destination_account_id
    THEN "Source and destination accounts cannot be the same"
    ELSE "none"

\* Variant: the amount is checked before the two ids are compared.
transfer_precheck_amount_first(source_account_id, destination_account_id, amount) ==
    IF amount <= 0 THEN "Transfer amount must be positive"
    ELSE IF source_account_id = destination_account_id
    THEN "Source and destination accounts cannot be the same"
    ELSE "none"

\* Lines 59-63: the checks of execute_transfer made before the try block.
transfer_precheck(source_account_id, destination_account_id, amount) ==
    IF source_account_id = destination_account_id
    THEN "Source and destination accounts cannot be the same"
    ELSE IF amount <= 0 THEN "Transfer amount must be positive"
    ELSE "none"

\* execute_deposit, lines 144-190, on the snapshot `rows`: the state of the
\* session when the handler returns or raises. The entry is added to the
\* session and not flushed.
deposit(rows, id, account_id, amount, currency) ==
    IF amount <= 0 THEN Raised("deposit", "Deposit amount must be positive")
    ELSE IF account_error(account_id, currency) # "none"
    THEN Raised("deposit", account_error(account_id, currency))
    ELSE
    LET transaction_obj == Transaction(id, "deposit", amount, currency,
                                       account_id, NoAccount, NoAccount)
    IN  IF ~ flush_accepts(transaction_obj) THEN Raised("deposit", "IntegrityError")
        ELSE [Idle EXCEPT !.pc = "returned", !.op = "deposit",
                          !.txn = {Completed(transaction_obj)},
                          !.pending = {deposit_entry(id, account_id, amount)}]

\* execute_withdrawal, lines 201-254, on the snapshot `rows`.
withdrawal(rows, id, account_id, amount, currency) ==
    IF amount <= 0 THEN Raised("withdrawal", "Withdrawal amount must be positive")
    ELSE IF account_error(account_id, currency) # "none"
    THEN Raised("withdrawal", account_error(account_id, currency))
    ELSE
    LET current_balance == calculate_balance(rows, account_id)
        transaction_obj == Transaction(id, "withdrawal", amount, currency,
                                       account_id, NoAccount, NoAccount)
    IN  IF insufficient(current_balance, amount)
        THEN InsufficientFunds("withdrawal", current_balance, amount)
        ELSE IF ~ flush_accepts(transaction_obj)
        THEN Raised("withdrawal", "IntegrityError")
        ELSE [Idle EXCEPT !.pc = "returned", !.op = "withdrawal",
                          !.txn = {Completed(transaction_obj)},
                          !.pending = {withdrawal_entry(id, account_id, amount)}]

\* Variant: the transfer is completed as soon as its debit entry is written,
\* without the credit entry and without the verification.
transfer_unverified(rows, id, source_account_id, destination_account_id, amount, currency) ==
    IF transfer_precheck(source_account_id, destination_account_id, amount) # "none"
    THEN Raised("transfer",
                transfer_precheck(source_account_id, destination_account_id, amount))
    ELSE IF transfer_error(source_account_id, destination_account_id, currency) # "none"
    THEN Raised("transfer",
                transfer_error(source_account_id, destination_account_id, currency))
    ELSE
    LET current_balance == calculate_balance(rows, source_account_id)
        transaction_obj == Transaction(id, "transfer", amount, currency, NoAccount,
                                       source_account_id, destination_account_id)
    IN  IF insufficient(current_balance, amount)
        THEN InsufficientFunds("transfer", current_balance, amount)
        ELSE IF ~ flush_accepts(transaction_obj)
        THEN Raised("transfer", "IntegrityError")
        ELSE [Idle EXCEPT !.pc = "returned", !.op = "transfer",
                          !.txn = {Completed(transaction_obj)},
                          !.flushed = {LedgerEntry(<<id, 1>>, source_account_id, id,
                                                   "debit", amount)}]

\* execute_transfer, lines 59-133, on the snapshot `rows`.
transfer(rows, id, source_account_id, destination_account_id, amount, currency) ==
    IF transfer_precheck(source_account_id, destination_account_id, amount) # "none"
    THEN Raised("transfer",
                transfer_precheck(source_account_id, destination_account_id, amount))
    ELSE IF transfer_error(source_account_id, destination_account_id, currency) # "none"
    THEN Raised("transfer",
                transfer_error(source_account_id, destination_account_id, currency))
    ELSE
    LET current_balance == calculate_balance(rows, source_account_id)
        transaction_obj == Transaction(id, "transfer", amount, currency, NoAccount,
                                       source_account_id, destination_account_id)
        entries == transfer_entries(id, source_account_id,
                                    destination_account_id, amount)
    IN  IF insufficient(current_balance, amount)
        THEN InsufficientFunds("transfer", current_balance, amount)
        ELSE IF ~ flush_accepts(transaction_obj)
        THEN Raised("transfer", "IntegrityError")
        ELSE IF ~ verify_double_entry(rows \cup entries, id)
        THEN [Raised("transfer", "Double-entry verification failed")
                EXCEPT !.txn = {transaction_obj}, !.flushed = entries]
        ELSE [Idle EXCEPT !.pc = "returned", !.op = "transfer",
                          !.txn = {Completed(transaction_obj)},
                          !.flushed = entries]

\* ----------------------------------------------------------------- actions

DbUnchanged ==
    UNCHANGED <<accounts, transactions, ledger_entries,
                enforce_double_entry_balance, created_at>>

\* SessionLocal() of get_db, line 31: a request takes the first free worker.
\* The handler leaves the session as `result`; a transaction row it created
\* took the fresh id.
Handle(s, result) ==
    /\ session[s].pc = "idle"
    /\ \A t \in Sessions : t < s => session[t].pc # "idle"
    /\ requests < MaxReq
    /\ requests' = requests + 1
    /\ session' = [session EXCEPT ![s] = result]
    /\ next_uuid' = IF result.txn = {} THEN next_uuid ELSE next_uuid + 1
    /\ DbUnchanged
    /\ UNCHANGED results

execute_deposit(s, account_id, amount, currency) ==
    Handle(s, deposit(ledger_entries, next_uuid, account_id, amount, currency))

execute_withdrawal(s, account_id, amount, currency) ==
    Handle(s, withdrawal(ledger_entries, next_uuid, account_id, amount, currency))

execute_transfer(s, source_account_id, destination_account_id, amount, currency) ==
    Handle(s, transfer(ledger_entries, next_uuid, source_account_id,
                       destination_account_id, amount, currency))

\* ------------------------------------------------------- the unit of work

\* The rows the unit inserted into ledger_entries, once everything is flushed.
Inserted(s) == session[s].flushed \cup session[s].pending

\* Whether COMMIT raises: the deferred constraint trigger runs
\* check_double_entry_balance for each row the unit inserted.
CommitRaises(s) ==
    /\ enforce_double_entry_balance
    /\ \E new \in Inserted(s) :
          check_double_entry_balance(ledger_entries \cup Inserted(s), new)

\* Variant: the transaction row survives a COMMIT that raises.
persisted_transactions_always(s) == session[s].txn

\* db.commit(), line 34, and db.rollback(), line 36, when it raises: the
\* transaction rows of the unit that become visible to others.
persisted_transactions(s) ==
    IF CommitRaises(s) THEN {} ELSE session[s].txn

\* Variant: COMMIT keeps the rows already flushed and loses the pending ones.
persisted_entries_flushed_only(s) ==
    IF CommitRaises(s) THEN {} ELSE session[s].flushed

\* The same for the ledger entries: COMMIT flushes the pending ones first.
persisted_entries(s) ==
    IF CommitRaises(s) THEN {} ELSE Inserted(s)

\* Variant: the unit also closes every account it debited.
Commit_closing(s) ==
    /\ session[s].pc = "returned"
    /\ transactions' = transactions \cup persisted_transactions(s)
    /\ ledger_entries' = ledger_entries \cup persisted_entries(s)
    /\ accounts' = [a \in DOMAIN accounts |->
                      IF \E e \in persisted_entries(s) :
                            e.account_id = a /\ e.entry_type = "debit"
                      THEN [accounts[a] EXCEPT !.status = "closed"]
                      ELSE accounts[a]]
    /\ session' = [session EXCEPT ![s] = Idle]
    /\ UNCHANGED <<enforce_double_entry_balance, requests, next_uuid,
                   created_at, results>>

\* Variant: COMMIT overwrites the entries of the accounts it touches.
Commit_overwriting(s) ==
    /\ session[s].pc = "returned"
    /\ transactions' = transactions \cup persisted_transactions(s)
    /\ ledger_entries' =
          {e \in ledger_entries :
              \A n \in persisted_entries(s) : n.account_id # e.account_id}
            \cup persisted_entries(s)
    /\ session' = [session EXCEPT ![s] = Idle]
    /\ UNCHANGED <<accounts, enforce_double_entry_balance, requests, next_uuid,
                   created_at, results>>

\* get_db, lines 33-40: the handler returned, db.commit(); when the commit
\* raises, db.rollback(); db.close().
Commit(s) ==
    /\ session[s].pc = "returned"
    /\ transactions' = transactions \cup persisted_transactions(s)
    /\ ledger_entries' = ledger_entries \cup persisted_entries(s)
    /\ session' = [session EXCEPT ![s] = Idle]
    /\ UNCHANGED <<accounts, enforce_double_entry_balance, requests, next_uuid,
                   created_at, results>>

\* get_db, lines 35-40: the handler raised, db.rollback(); db.close().
Rollback(s) ==
    /\ session[s].pc = "raised"
    /\ session' = [session EXCEPT ![s] = Idle]
    /\ DbUnchanged
    /\ UNCHANGED <<requests, next_uuid, results>>

\* ---------------------------------------------------------- the migrations

\* Revision 003, upgrade(): CREATE CONSTRAINT TRIGGER enforce_double_entry_balance.
\* Migrations run when the application starts, before it serves a request.
upgrade ==
    /\ ~ enforce_double_entry_balance
    /\ \A s \in Sessions : session[s].pc = "idle"
    /\ enforce_double_entry_balance' = TRUE
    /\ UNCHANGED <<accounts, transactions, ledger_entries, session, requests,
                   next_uuid, created_at, results>>

\* -------------------------------------------------------------------- Next

Deposit ==
    \E s \in Sessions, a \in AccountIds, m \in Amounts, c \in Currencies :
        execute_deposit(s, a, m, c)

Withdrawal ==
    \E s \in Sessions, a \in AccountIds, m \in Amounts, c \in Currencies :
        execute_withdrawal(s, a, m, c)

Transfer ==
    \E s \in Sessions, a \in AccountIds, b \in AccountIds,
       m \in Amounts, c \in Currencies :
        execute_transfer(s, a, b, m, c)

CommitUnit == \E s \in Sessions : Commit(s)

RollbackUnit == \E s \in Sessions : Rollback(s)

Next ==
    \/ Deposit
    \/ Withdrawal
    \/ Transfer
    \/ CommitUnit
    \/ RollbackUnit
    \/ upgrade

Spec == Init /\ [][Next]_vars

\* ------------------------------------------ rows written straight to the store

\* Rows written to the store in one behaviour of SpecLedger.
MaxRows == 4

Rows == Cardinality(transactions) + Cardinality(ledger_entries)

\* tests/test_services.py, lines 88-95: a completed transfer row, added and
\* committed without the service.
insert_transaction(amount) ==
    /\ Rows < MaxRows
    /\ next_uuid <= MaxRows
    /\ positive_amount(amount)
    /\ transactions' = transactions \cup
          {[Transaction(next_uuid, "transfer", amount, "USD",
                        NoAccount, NoAccount, NoAccount)
              EXCEPT !.status = "completed"]}
    /\ next_uuid' = next_uuid + 1
    /\ UNCHANGED <<accounts, ledger_entries, enforce_double_entry_balance,
                   session, requests, created_at, results>>

\* Variant: table ledger_entries without unique_transaction_account_entry.
insert_entry_without_unique(account_id, transaction_id, entry_type, amount) ==
    /\ Rows < MaxRows
    /\ account_id \in DOMAIN accounts
    /\ \E t \in transactions : t.id = transaction_id
    /\ amount > 0
    /\ ledger_entries' = ledger_entries \cup
          {LedgerEntry(<<transaction_id,
                         1 + Cardinality({e \in ledger_entries :
                                            e.transaction_id = transaction_id})>>,
                       account_id, transaction_id, entry_type, amount)}
    /\ UNCHANGED <<accounts, transactions, enforce_double_entry_balance,
                   session, requests, next_uuid, created_at, results>>

\* tests/test_services.py, lines 98-114: a ledger entry, added and committed
\* without the service. The table's foreign keys, its CHECK amount > 0 and its
\* unique constraint accept or reject the row.
insert_entry(account_id, transaction_id, entry_type, amount) ==
    /\ Rows < MaxRows
    /\ account_id \in DOMAIN accounts
    /\ \E t \in transactions : t.id = transaction_id
    /\ amount > 0
    /\ ~ \E e \in ledger_entries : /\ e.transaction_id = transaction_id
                                   /\ e.account_id = account_id
                                   /\ e.entry_type = entry_type
    /\ ledger_entries' = ledger_entries \cup
          {LedgerEntry(<<transaction_id,
                         1 + Cardinality({e \in ledger_entries :
                                            e.transaction_id = transaction_id})>>,
                       account_id, transaction_id, entry_type, amount)}
    /\ UNCHANGED <<accounts, transactions, enforce_double_entry_balance,
                   session, requests, next_uuid, created_at, results>>

InsertTransaction == \E m \in Amounts : insert_transaction(m)

InsertEntry ==
    \E a \in AccountIds, t \in 1..MaxRows, k \in {"debit", "credit"}, m \in Amounts :
        insert_entry(a, t, k, m)

NextLedger ==
    \/ InsertTransaction
    \/ InsertEntry

SpecLedger == Init /\ [][NextLedger]_vars

\* --------------------------------- the service on accounts of every status

\* Amounts a caller may pass, negative ones included.
AnyAmounts == Amounts \cup {-1}

\* As Init, with an account of each status of account_status_enum: a2 is
\* frozen and a3 is closed.
InitInputs ==
    /\ accounts = [a \in {"a1", "a2", "a3", "a4"} |->
                     [status   |-> CASE a = "a2" -> "frozen"
                                     [] a = "a3" -> "closed"
                                     [] OTHER    -> "active",
                      currency |-> IF a = "a4" THEN "EUR" ELSE "USD"]]
    /\ transactions = {}
    /\ ledger_entries = {}
    /\ enforce_double_entry_balance = FALSE
    /\ session = [s \in Sessions |-> Idle]
    /\ requests = 0
    /\ next_uuid = 1
    /\ created_at = <<>>
    /\ results = {}

DepositInput ==
    \E s \in Sessions, a \in AccountIds, m \in AnyAmounts, c \in Currencies :
        execute_deposit(s, a, m, c)

WithdrawalInput ==
    \E s \in Sessions, a \in AccountIds, m \in AnyAmounts, c \in Currencies :
        execute_withdrawal(s, a, m, c)

TransferInput ==
    \E s \in Sessions, a \in AccountIds, b \in AccountIds,
       m \in AnyAmounts, c \in Currencies :
        execute_transfer(s, a, b, m, c)

NextInputs ==
    \/ DepositInput
    \/ WithdrawalInput
    \/ TransferInput
    \/ CommitUnit
    \/ RollbackUnit
    \/ upgrade

SpecInputs == InitInputs /\ [][NextInputs]_vars

\* ------------------------------------------------------------- properties

\* The balance of account a as a unit with session record r computes it once
\* its own rows are flushed.
UnitBalance(r, a) ==
    calculate_balance(ledger_entries \cup r.flushed \cup r.pending, a)

\* The session of a handler that wrote nothing.
NoWrites(r) == r.txn = {} /\ r.flushed = {} /\ r.pending = {}

\* Session s ran the handler of operation op in this step.
Handled(s, op) ==
    /\ session[s].pc = "idle"
    /\ session'[s].pc # "idle"
    /\ session'[s].op = op

CommittedUnchanged ==
    /\ transactions' = transactions
    /\ ledger_entries' = ledger_entries

\* A deposit or a withdrawal on account a with currency c passes the account
\* checks.
ValidAccount(a, c) ==
    /\ a \in DOMAIN accounts
    /\ accounts[a].status = "active"
    /\ accounts[a].currency = c

\* C1: no overdraft. In every committed state every account's balance,
\* computed from the committed ledger entries, is >= 0, whatever the
\* interleaving of the units that debit it.
C1_NoOverdraft ==
    \A a \in DOMAIN accounts : account_balances(a) >= 0

\* C2: atomicity on failure. A handler that raises changes no committed row,
\* and when a unit that failed ends (the handler raised, or COMMIT raised after
\* the transaction and its entries were written) the committed state is the one
\* before and holds no transaction and no entry of that attempt.
C2_AtomicOnFailure ==
    [][\A s \in Sessions :
         /\ (session[s].pc = "idle" /\ session'[s].pc = "raised")
               => CommittedUnchanged
         /\ ( /\ \/ session[s].pc = "raised"
                 \/ session[s].pc = "returned" /\ CommitRaises(s)
              /\ session'[s].pc = "idle" )
               => /\ CommittedUnchanged
                  /\ \A t \in session[s].txn :
                        /\ \A c \in transactions' : c.id # t.id
                        /\ \A e \in ledger_entries' : e.transaction_id # t.id
      ]_vars

\* C2 happens: a unit that wrote its transaction and an entry and whose COMMIT
\* raises.
C2_Witness ==
    \E s \in Sessions :
        /\ session[s].pc = "returned"
        /\ CommitRaises(s)
        /\ session[s].txn # {}
        /\ Inserted(s) # {}

\* C3: every committed completed transfer has exactly two entries, a debit of
\* its amount on its source account and a credit of its amount on its
\* destination account, with signed sum 0; every transfer a handler returned
\* passes double-entry verification.
C3_TransferBalanced ==
    /\ \A t \in transactions :
          (t.type = "transfer" /\ t.status = "completed") =>
             LET es == {e \in ledger_entries : e.transaction_id = t.id}
             IN  /\ Cardinality(es) = 2
                 /\ \E d \in es :
                       /\ d.entry_type = "debit"
                       /\ d.account_id = t.source_account_id
                       /\ d.amount = t.amount
                 /\ \E c \in es :
                       /\ c.entry_type = "credit"
                       /\ c.account_id = t.destination_account_id
                       /\ c.amount = t.amount
                 /\ SumAmount({e \in es : e.entry_type = "credit"})
                       - SumAmount({e \in es : e.entry_type = "debit"}) = 0
    /\ \A s \in Sessions :
          (session[s].pc = "returned" /\ session[s].op = "transfer") =>
             \A t \in session[s].txn :
                /\ verify_double_entry(ledger_entries \cup Inserted(s), t.id)
                /\ \E d \in Inserted(s) :
                      d.entry_type = "debit" /\ d.account_id = t.source_account_id

\* C3 happens: a completed transfer is committed.
C3_Witness ==
    \E t \in transactions : t.type = "transfer" /\ t.status = "completed"

\* C4: with the deferred trigger of revision 003 in force, the COMMIT of a
\* deposit or a withdrawal that returned successfully does not raise.
C4_SingleEntryCommits ==
    \A s \in Sessions :
        ( /\ session[s].pc = "returned"
          /\ session[s].op \in {"deposit", "withdrawal"}
          /\ enforce_double_entry_balance )
            => ~ CommitRaises(s)

\* C5: for every account the balance is the sum of its credit entries minus
\* the sum of its debit entries, taken from the raw rows: 0 with no entry,
\* negative with debit entries only; an account row stores no balance.
C5_BalanceFromEntries ==
    /\ \A a \in AccountIds :
          LET es      == {e \in ledger_entries : e.account_id = a}
              credits == {e \in es : e.entry_type = "credit"}
              debits  == {e \in es : e.entry_type = "debit"}
          IN  /\ account_balances(a) = SumAmount(credits) - SumAmount(debits)
              /\ calculate_balance(ledger_entries, a)
                    = SumAmount(credits) - SumAmount(debits)
              /\ es = {} => account_balances(a) = 0
              /\ (es # {} /\ credits = {}) => account_balances(a) < 0
    /\ \A a \in DOMAIN accounts : DOMAIN accounts[a] = {"status", "currency"}

\* C5 happens: an account holds debit entries only, another holds credits.
C5_Witness ==
    /\ \E a \in AccountIds :
          /\ \E e \in ledger_entries : e.account_id = a
          /\ \A e \in ledger_entries : e.account_id = a => e.entry_type = "debit"
    /\ \E e \in ledger_entries : e.entry_type = "credit"

\* C6: a withdrawal or a transfer whose other checks pass and whose debited
\* account has a balance below the amount raises "Insufficient funds" with the
\* available balance and the required amount, and has written nothing: no
\* transaction, no entry, committed or not, and no balance changes.
C6_InsufficientFundsNoWrites ==
    [][\A s \in Sessions :
         /\ Handled(s, "withdrawal") =>
            \A a \in AccountIds, m \in Amounts, c \in Currencies :
              ( /\ m > 0
                /\ ValidAccount(a, upper(c))
                /\ account_balances(a) < m
                /\ execute_withdrawal(s, a, m, c) )
                 => /\ session'[s].pc = "raised"
                    /\ session'[s].error = "Insufficient funds"
                    /\ session'[s].detail = <<account_balances(a), m>>
                    /\ NoWrites(session'[s])
                    /\ CommittedUnchanged
                    /\ \A x \in AccountIds :
                          UnitBalance(session'[s], x) = account_balances(x)
         /\ Handled(s, "transfer") =>
            \A a \in AccountIds, b \in AccountIds, m \in Amounts, c \in Currencies :
              ( /\ a # b
                /\ m > 0
                /\ ValidAccount(a, upper(c))
                /\ ValidAccount(b, upper(c))
                /\ account_balances(a) < m
                /\ execute_transfer(s, a, b, m, c) )
                 => /\ session'[s].pc = "raised"
                    /\ session'[s].error = "Insufficient funds"
                    /\ session'[s].detail = <<account_balances(a), m>>
                    /\ NoWrites(session'[s])
                    /\ CommittedUnchanged
                    /\ \A x \in AccountIds :
                          UnitBalance(session'[s], x) = account_balances(x)
      ]_vars

\* C6 happens: insufficient funds were raised, once on an empty account and
\* once on an account that holds less than the amount.
C6_Witness ==
    \E s \in Sessions :
        /\ session[s].pc = "raised"
        /\ session[s].error = "Insufficient funds"
        /\ session[s].detail[1] > 0
        /\ session[s].detail[1] < session[s].detail[2]

\* C7: a transfer that returns successfully had a source balance >= amount and
\* returns a completed transaction of type transfer; with its rows the source
\* balance is lower by exactly the amount, the destination balance higher by
\* exactly the amount and every other balance the same, in the unit and, once
\* the unit commits, in the committed state.
C7_TransferMovesAmount ==
    [][\A s \in Sessions :
         /\ Handled(s, "transfer") =>
            \A a \in AccountIds, b \in AccountIds, m \in Amounts, c \in Currencies :
              (session'[s].pc = "returned" /\ execute_transfer(s, a, b, m, c))
                 => /\ account_balances(a) >= m
                    /\ Cardinality(session'[s].txn) = 1
                    /\ \A t \in session'[s].txn :
                          /\ t.type = "transfer"
                          /\ t.status = "completed"
                          /\ t.amount = m
                    /\ \A x \in AccountIds :
                          UnitBalance(session'[s], x) =
                             account_balances(x)
                               + (IF x = b THEN m ELSE 0)
                               - (IF x = a THEN m ELSE 0)
         /\ (session[s].op = "transfer" /\ Commit(s))
               => \A t \in session[s].txn :
                     /\ t \in transactions'
                     /\ \A x \in AccountIds :
                           account_balances(x)' =
                              account_balances(x)
                                + (IF x = t.destination_account_id THEN t.amount ELSE 0)
                                - (IF x = t.source_account_id THEN t.amount ELSE 0)
      ]_vars

\* C7 happens: a transfer of part of the source's balance is committed.
C7_Witness ==
    \E t \in transactions :
        /\ t.type = "transfer"
        /\ account_balances(t.source_account_id) > 0
        /\ account_balances(t.destination_account_id) = t.amount

\* C8: a deposit of a positive amount on an active account in the account's
\* currency returns successfully whatever the balance, and no deposit raises
\* "Insufficient funds"; a deposit that returns has created exactly one
\* completed transaction of type deposit and exactly one credit entry of the
\* amount on the account, so that with its rows the account's balance is
\* higher by exactly the amount and no other balance changes, in the unit and,
\* when the unit's COMMIT succeeds, in the committed state.
C8_DepositCredits ==
    [][\A s \in Sessions :
         /\ Handled(s, "deposit") =>
            \A a \in AccountIds, m \in Amounts, c \in Currencies :
              execute_deposit(s, a, m, c) =>
                 /\ session'[s].error # "Insufficient funds"
                 /\ (m > 0 /\ ValidAccount(a, c)) => session'[s].pc = "returned"
                 /\ session'[s].pc = "returned" =>
                       /\ Cardinality(session'[s].txn) = 1
                       /\ \A t \in session'[s].txn :
                             /\ t.type = "deposit"
                             /\ t.status = "completed"
                             /\ t.amount = m
                             /\ \A e \in session'[s].flushed \cup session'[s].pending :
                                   /\ e.transaction_id = t.id
                                   /\ e.entry_type = "credit"
                                   /\ e.amount = m
                                   /\ e.account_id = a
                       /\ Cardinality(session'[s].flushed \cup session'[s].pending) = 1
                       /\ \A x \in AccountIds :
                             UnitBalance(session'[s], x) =
                                account_balances(x) + (IF x = a THEN m ELSE 0)
         /\ (session[s].op = "deposit" /\ ~ CommitRaises(s) /\ Commit(s))
               => \A t \in session[s].txn :
                     /\ t \in transactions'
                     /\ \A x \in AccountIds :
                           account_balances(x)' =
                              account_balances(x)
                                + (IF x = t.account_id THEN t.amount ELSE 0)
      ]_vars

\* C8 happens: a deposit is committed on an account that already had funds.
C8_Witness ==
    \E t \in transactions :
        /\ t.type = "deposit"
        /\ t.status = "completed"
        /\ account_balances(t.account_id) > t.amount

\* C9: a withdrawal whose checks pass and whose account holds at least the
\* amount returns successfully, the whole balance included; a withdrawal that
\* returns has created exactly one completed transaction of type withdrawal
\* and exactly one debit entry of the amount, so that with its rows the
\* balance is lower by exactly the amount (0 when the whole balance is
\* withdrawn), in the unit and, when the unit's COMMIT succeeds, in the
\* committed state.
C9_WithdrawalDebits ==
    [][\A s \in Sessions :
         /\ Handled(s, "withdrawal") =>
            \A a \in AccountIds, m \in Amounts, c \in Currencies :
              execute_withdrawal(s, a, m, c) =>
                 /\ (m > 0 /\ ValidAccount(a, c) /\ account_balances(a) >= m)
                       => session'[s].pc = "returned"
                 /\ session'[s].pc = "returned" =>
                       /\ account_balances(a) >= m
                       /\ Cardinality(session'[s].txn) = 1
                       /\ \A t \in session'[s].txn :
                             /\ t.type = "withdrawal"
                             /\ t.status = "completed"
                             /\ t.amount = m
                             /\ \A e \in session'[s].flushed \cup session'[s].pending :
                                   /\ e.transaction_id = t.id
                                   /\ e.entry_type = "debit"
                                   /\ e.amount = m
                                   /\ e.account_id = a
                       /\ Cardinality(session'[s].flushed \cup session'[s].pending) = 1
                       /\ \A x \in AccountIds :
                             UnitBalance(session'[s], x) =
                                account_balances(x) - (IF x = a THEN m ELSE 0)
                       /\ account_balances(a) = m => UnitBalance(session'[s], a) = 0
         /\ (session[s].op = "withdrawal" /\ ~ CommitRaises(s) /\ Commit(s))
               => \A t \in session[s].txn :
                     /\ t \in transactions'
                     /\ \A x \in AccountIds :
                           account_balances(x)' =
                              account_balances(x)
                                - (IF x = t.account_id THEN t.amount ELSE 0)
      ]_vars

\* C9 happens: a committed withdrawal took the whole balance of its account.
C9_Witness ==
    \E t \in transactions :
        /\ t.type = "withdrawal"
        /\ t.status = "completed"
        /\ account_balances(t.account_id) = 0

\* C10: a transfer whose source and destination ids are equal raises the
\* same-account error, whatever the amount (zero included), the currency and
\* the account (missing, frozen, of another currency), and writes nothing.
C10_SameAccountFirst ==
    [][\A s \in Sessions : Handled(s, "transfer") =>
        \A a \in AccountIds, m \in Amounts, c \in Currencies :
         execute_transfer(s, a, a, m, c) =>
            /\ session'[s].pc = "raised"
            /\ session'[s].error =
                  "Source and destination accounts cannot be the same"
            /\ NoWrites(session'[s])
            /\ CommittedUnchanged
            /\ accounts' = accounts
      ]_vars

\* C10 happens: the same-account error was raised.
C10_Witness ==
    \E s \in Sessions :
        /\ session[s].pc = "raised"
        /\ session[s].op = "transfer"
        /\ session[s].error = "Source and destination accounts cannot be the same"

\* The error of the source account's own validations in execute_transfer
\* (existence, status, currency), or "none" when the source passes them.
SourceError(a, c) ==
    IF a \notin DOMAIN accounts THEN "Source account does not exist"
    ELSE IF accounts[a].status # "active" THEN "Source account is not active"
    ELSE IF accounts[a].currency # upper(c)
         THEN "Source account currency does not match"
    ELSE "none"

\* C11: in a transfer between distinct ids with a positive amount, whenever
\* the source account fails one of its validations (existence, active status,
\* currency), the error raised is the source account's error, whatever the
\* destination account is (missing, inactive, of another currency).
C11_SourceErrorsFirst ==
    [][\A s \in Sessions : Handled(s, "transfer") =>
        \A a \in AccountIds, b \in AccountIds, m \in Amounts, c \in Currencies :
          ( /\ a # b
            /\ m > 0
            /\ SourceError(a, c) # "none"
            /\ execute_transfer(s, a, b, m, c) )
             => session'[s].error = SourceError(a, c)
      ]_vars

\* The first check of execute_deposit (op = "deposit") or execute_withdrawal
\* (op = "withdrawal") that fails for account a, amount m and currency c in
\* the committed state, in the order existence, status, currency, funds.
FirstFailing(op, a, m, c) ==
    IF a \notin DOMAIN accounts THEN "Account does not exist"
    ELSE IF accounts[a].status # "active" THEN "Account is not active"
    ELSE IF accounts[a].currency # upper(c) THEN "Account currency does not match"
    ELSE IF op = "withdrawal" /\ account_balances(a) < m THEN "Insufficient funds"
    ELSE "none"

CheckErrors ==
    {"Account does not exist", "Account is not active",
     "Account currency does not match", "Insufficient funds"}

\* C12: a deposit or a withdrawal of a positive amount raises the error of the
\* first check that fails in the order existence, active status, currency,
\* funds (funds for a withdrawal only), however many checks fail at once, and
\* raises none of these errors when every check passes; the error is a
\* function of the arguments and the committed state alone.
C12_FirstFailingCheck ==
    [][\A s \in Sessions :
         /\ Handled(s, "deposit") =>
              \A a \in AccountIds, m \in Amounts, c \in Currencies :
                (m > 0 /\ execute_deposit(s, a, m, c)) =>
                   IF FirstFailing("deposit", a, m, c) # "none"
                   THEN /\ session'[s].pc = "raised"
                        /\ session'[s].error = FirstFailing("deposit", a, m, c)
                   ELSE session'[s].error \notin CheckErrors
         /\ Handled(s, "withdrawal") =>
              \A a \in AccountIds, m \in Amounts, c \in Currencies :
                (m > 0 /\ execute_withdrawal(s, a, m, c)) =>
                   IF FirstFailing("withdrawal", a, m, c) # "none"
                   THEN /\ session'[s].pc = "raised"
                        /\ session'[s].error = FirstFailing("withdrawal", a, m, c)
                   ELSE session'[s].error \notin CheckErrors
      ]_vars

\* C12 happens: a withdrawal from the frozen account, whose balance is below
\* any positive amount, raised the status error; a withdrawal in another
\* currency from an active account raised the currency error.
C12_Witness ==
    /\ \E s \in Sessions :
          /\ session[s].pc = "raised"
          /\ session[s].op = "withdrawal"
          /\ session[s].error = "Account is not active"
    /\ \E s \in Sessions :
          /\ session[s].pc = "raised"
          /\ session[s].op = "withdrawal"
          /\ session[s].error = "Account currency does not match"

\* Account a exists and is frozen or closed.
Inactive(a) ==
    /\ a \in DOMAIN accounts
    /\ accounts[a].status \in {"frozen", "closed"}

\* The outcome r of a handler that raised without writing.
RaisedWithoutWrites(r) == r.pc = "raised" /\ NoWrites(r)

\* What the handlers make of a call that involves a frozen or a closed account,
\* in the current committed state.
InactiveRefused ==
    /\ \A a \in AccountIds, m \in AnyAmounts, c \in Currencies :
          Inactive(a) =>
             LET d == deposit(ledger_entries, next_uuid, a, m, c)
                 w == withdrawal(ledger_entries, next_uuid, a, m, c)
             IN  /\ RaisedWithoutWrites(d)
                 /\ RaisedWithoutWrites(w)
                 /\ m > 0 => /\ d.error = "Account is not active"
                             /\ w.error = "Account is not active"
    /\ \A a \in AccountIds, b \in AccountIds, m \in AnyAmounts, c \in Currencies :
          (Inactive(a) \/ Inactive(b)) =>
             LET t == transfer(ledger_entries, next_uuid, a, b, m, c)
             IN  /\ RaisedWithoutWrites(t)
                 /\ (a # b /\ m > 0 /\ Inactive(a))
                       => t.error = "Source account is not active"
                 /\ ( /\ a # b /\ m > 0 /\ Inactive(b)
                      /\ a \in DOMAIN accounts
                      /\ accounts[a].status = "active" )
                       => t.error = "Destination account is not active"

\* C13: only active accounts accept transactions. In every state a deposit, a
\* withdrawal or a transfer that involves a frozen or a closed account raises
\* and writes nothing, and the error is the inactive-account error (of the
\* source, or of the destination when the source is active) when the amount is
\* positive and the ids of a transfer differ; a handler that raises leaves the
\* committed rows as they were; and no ledger entry, committed or written by a
\* unit, is ever on an account that is not active.
C13_OnlyActiveAccounts ==
    /\ []InactiveRefused
    /\ [][\A s \in Sessions :
            /\ \A e \in ledger_entries' \cup session'[s].flushed
                                         \cup session'[s].pending :
                  /\ e.account_id \in DOMAIN accounts'
                  /\ accounts'[e.account_id].status = "active"
            /\ (session[s].pc = "idle" /\ session'[s].pc = "raised")
                  => CommittedUnchanged
         ]_vars

\* C13 happens: after entries were committed, a transfer to an inactive
\* account and a deposit or a withdrawal on one were refused.
C13_Witness ==
    /\ ledger_entries # {}
    /\ \E s \in Sessions :
          /\ session[s].pc = "raised"
          /\ session[s].error = "Destination account is not active"
    /\ \E s \in Sessions :
          /\ session[s].pc = "raised"
          /\ session[s].error = "Account is not active"

\* C14: the currency stored with a committed transaction is the currency of
\* every account that holds a ledger entry of that transaction, whatever
\* currency string was passed to the service (the service compares the
\* upper-cased argument and stores the argument as given).
C14_TransactionCurrencyIsAccountCurrency ==
    \A t \in transactions :
        \A e \in ledger_entries :
            e.transaction_id = t.id =>
               /\ e.account_id \in DOMAIN accounts
               /\ accounts[e.account_id].currency = t.currency

\* C14 happens: a transaction in EUR is committed with its entry, and a call
\* with a lower-case currency on an account of that currency was refused by
\* the table's CHECK.
C14_Witness ==
    /\ \E t \in transactions :
          /\ t.currency = "EUR"
          /\ \E e \in ledger_entries : e.transaction_id = t.id
    /\ \E s \in Sessions :
          /\ session[s].pc = "raised"
          /\ session[s].error = "IntegrityError"

\* Account a exists and is active.
ActiveAccount(a) ==
    /\ a \in DOMAIN accounts
    /\ accounts[a].status = "active"

\* C15: a deposit, a withdrawal or a transfer of a positive amount (between
\* distinct ids) whose accounts all exist and are active raises a
\* currency-mismatch error, and writes nothing, whenever the currency argument
\* is not equal to the currency of one of its accounts.
C15_CurrencyMismatchRaised ==
    [][\A s \in Sessions :
         /\ Handled(s, "deposit") =>
              \A a \in AccountIds, m \in Amounts, c \in Currencies :
                ( /\ m > 0
                  /\ ActiveAccount(a)
                  /\ accounts[a].currency # c
                  /\ execute_deposit(s, a, m, c) )
                   => /\ session'[s].pc = "raised"
                      /\ session'[s].error = "Account currency does not match"
                      /\ NoWrites(session'[s])
                      /\ CommittedUnchanged
         /\ Handled(s, "withdrawal") =>
              \A a \in AccountIds, m \in Amounts, c \in Currencies :
                ( /\ m > 0
                  /\ ActiveAccount(a)
                  /\ accounts[a].currency # c
                  /\ execute_withdrawal(s, a, m, c) )
                   => /\ session'[s].pc = "raised"
                      /\ session'[s].error = "Account currency does not match"
                      /\ NoWrites(session'[s])
                      /\ CommittedUnchanged
         /\ Handled(s, "transfer") =>
              \A a \in AccountIds, b \in AccountIds, m \in Amounts, c \in Currencies :
                ( /\ a # b
                  /\ m > 0
                  /\ ActiveAccount(a)
                  /\ ActiveAccount(b)
                  /\ (accounts[a].currency # c \/ accounts[b].currency # c)
                  /\ execute_transfer(s, a, b, m, c) )
                   => /\ session'[s].pc = "raised"
                      /\ session'[s].error \in
                            {"Source account currency does not match",
                             "Destination account currency does not match"}
                      /\ NoWrites(session'[s])
                      /\ CommittedUnchanged
      ]_vars

\* What the handlers make of an amount <= 0 in the current committed state:
\* the validation error, whatever the account is (missing, inactive, of another
\* currency), with nothing written; for a transfer, after the comparison of
\* the two ids only.
NonPositiveRefused ==
    \A a \in AccountIds, m \in AnyAmounts, c \in Currencies :
        m <= 0 =>
           /\ deposit(ledger_entries, next_uuid, a, m, c)
                 = Raised("deposit", "Deposit amount must be positive")
           /\ withdrawal(ledger_entries, next_uuid, a, m, c)
                 = Raised("withdrawal", "Withdrawal amount must be positive")
           /\ \A b \in AccountIds :
                 transfer(ledger_entries, next_uuid, a, b, m, c)
                    = IF a = b
                      THEN Raised("transfer",
                             "Source and destination accounts cannot be the same")
                      ELSE Raised("transfer", "Transfer amount must be positive")

\* Every transaction and every ledger entry, committed or written by a unit,
\* has an amount > 0.
PositiveAmounts ==
    /\ \A t \in transactions : t.amount > 0
    /\ \A e \in ledger_entries : e.amount > 0
    /\ \A s \in Sessions :
          /\ \A t \in session[s].txn : t.amount > 0
          /\ \A e \in session[s].flushed \cup session[s].pending : e.amount > 0

\* C16: every execute_* called with amount <= 0 raises the validation error
\* of the amount before any account lookup and any write (a transfer after the
\* same-account check only), so every transaction and every ledger entry that
\* ever exists has a strictly positive amount.
C16_PositiveAmounts ==
    /\ NonPositiveRefused
    /\ PositiveAmounts
    /\ \A s \in Sessions :
          session[s].error \in {"Deposit amount must be positive",
                                "Withdrawal amount must be positive",
                                "Transfer amount must be positive"}
             => RaisedWithoutWrites(session[s])

\* C16 happens: rows are committed and a call with amount <= 0 was refused.
C16_Witness ==
    /\ ledger_entries # {}
    /\ \E s \in Sessions :
          /\ session[s].pc = "raised"
          /\ session[s].error = "Transfer amount must be positive"
    /\ \E s \in Sessions :
          /\ session[s].pc = "raised"
          /\ session[s].error \in {"Deposit amount must be positive",
                                   "Withdrawal amount must be positive"}

\* The ledger entries of transaction id among rows.
EntriesOf(rows, id) == {e \in rows : e.transaction_id = id}

\* C17: a transaction is created pending and becomes completed when its
\* handler returns; no transaction is ever marked otherwise, and once a
\* transaction is completed no later step of any request changes its status,
\* amount, currency, accounts (its metadata) or entries, in its unit and after
\* its commit.
C17_StatusStateMachine ==
    [][/\ \A type \in {"deposit", "withdrawal", "transfer"}, m \in Amounts,
             c \in Currencies :
            LET t == Transaction(next_uuid, type, m, c, NoAccount, NoAccount, NoAccount)
            IN  /\ t.status = "pending"
                /\ Completed(t).status = "completed"
                /\ [Completed(t) EXCEPT !.status = "pending", !.completed_at = FALSE] = t
       /\ \A t \in transactions :
            /\ t \in transactions'
            /\ EntriesOf(ledger_entries', t.id) = EntriesOf(ledger_entries, t.id)
       /\ \A t \in transactions' :
            /\ t.status = "completed"
            /\ \A u \in transactions' : u.id = t.id => u = t
       /\ \A s \in Sessions :
            /\ \A t \in session'[s].txn :
                  /\ session'[s].pc = "returned" => t.status = "completed"
                  /\ session'[s].pc = "raised" => t.status = "pending"
                  /\ \A u \in transactions' : u.id # t.id
            /\ (session[s].txn # {} /\ session'[s].txn # {})
                  => /\ session'[s].txn = session[s].txn
                     /\ Inserted(s)' = Inserted(s)
            /\ (session[s].txn # {} /\ session'[s].txn = {})
                  => \/ /\ session[s].txn \subseteq transactions'
                        /\ \A t \in session[s].txn :
                              EntriesOf(ledger_entries', t.id) = Inserted(s)
                     \/ /\ transactions' = transactions
                        /\ ledger_entries' = ledger_entries
      ]_vars

\* C17 happens: a transaction was committed completed, and later requests
\* committed others and hold another one.
C17_Witness ==
    /\ Cardinality(transactions) >= 2
    /\ \E s \in Sessions : session[s].pc = "returned" /\ session[s].txn # {}

\* C18: the ledger is append-only. No step of any request updates or deletes a
\* committed ledger entry: the set of committed entries only grows, and every
\* committed entry keeps its id, account, transaction, type and amount.
C18_AppendOnly ==
    [][/\ ledger_entries \subseteq ledger_entries'
       /\ \A e \in ledger_entries : \A f \in ledger_entries' :
             f.id = e.id => f = e
      ]_vars

\* C18 happens: entries are committed on an account that already held
\* committed entries of an earlier transaction.
C18_Witness ==
    \E e \in ledger_entries : \E f \in ledger_entries :
        /\ e.account_id = f.account_id
        /\ e.transaction_id < f.transaction_id

\* What a reader in another unit can see is whole: no pending transaction, no
\* transaction without its entries, no transfer with one entry, no entry
\* without its transaction.
VisibleStateWhole ==
    /\ \A t \in transactions :
          /\ t.status # "pending"
          /\ Cardinality(EntriesOf(ledger_entries, t.id))
                = IF t.type = "transfer" THEN 2 ELSE 1
    /\ \A e \in ledger_entries : \E t \in transactions : t.id = e.transaction_id

\* C19: no partial state is visible. The rows a unit wrote are not among the
\* rows another unit reads until the unit commits; the unit's transaction and
\* all its entries become visible in one step, or never; so a reader never
\* sees a pending transaction, a transfer with one of its two entries, or an
\* entry whose transaction is not visible.
C19_NoPartialState ==
    /\ []VisibleStateWhole
    /\ [][\A s \in Sessions :
            /\ \A t \in session'[s].txn :
                  /\ \A u \in transactions' : u.id # t.id
                  /\ EntriesOf(ledger_entries', t.id) = {}
            /\ \A t \in session[s].txn :
                  session'[s].txn = {} =>
                     \/ /\ t \in transactions'
                        /\ EntriesOf(ledger_entries', t.id) = Inserted(s)
                        /\ Inserted(s) # {}
                     \/ /\ \A u \in transactions' : u.id # t.id
                        /\ EntriesOf(ledger_entries', t.id) = {}
         ]_vars

\* C19 happens: a unit holds a transfer it has not committed while another
\* unit, whose handler ran later, made its reads, and rows are committed.
C19_Witness ==
    /\ transactions # {}
    /\ \E s \in Sessions : \E r \in Sessions :
          /\ session[s].pc = "returned"
          /\ session[s].op = "transfer"
          /\ \E t \in session[s].txn : \E u \in session[r].txn : u.id > t.id

\* The debit entries among rows.
Debits(rows) == {e \in rows : e.entry_type = "debit"}

\* C20: two units that debit the same account and both commit are serialized
\* with respect to their balance check: one of them checked a balance that
\* included the other's debit. Transaction ids are handed out in the order
\* the handlers run; so when a unit commits a debit on an account, no debit
\* already committed on that account belongs to a transaction created later:
\* that later unit would have checked the balance before this commit, and
\* this unit before the later transaction existed.
C20_BalanceChecksSerialized ==
    [][\A s \in Sessions :
         (session[s].pc = "returned" /\ ~ CommitRaises(s) /\ Commit(s)) =>
            \A d \in Debits(Inserted(s)) :
               \A e \in Debits(ledger_entries) :
                  e.account_id = d.account_id
                     => e.transaction_id < d.transaction_id
      ]_vars

\* The transaction rows some unit holds and has not committed.
Uncommitted == UNION {session[s].txn : s \in Sessions}

\* C26: in every committed state every transfer transaction has exactly two
\* ledger entries, every deposit exactly one, a credit, and every withdrawal
\* exactly one, a debit; no committed transaction has no entry or more entries
\* than that.
C26_EntriesPerTransaction ==
    \A t \in transactions :
        LET entries == EntriesOf(ledger_entries, t.id)
        IN  /\ t.type = "transfer" => Cardinality(entries) = 2
            /\ t.type = "deposit" =>
                  /\ Cardinality(entries) = 1
                  /\ \A e \in entries : e.entry_type = "credit"
            /\ t.type = "withdrawal" =>
                  /\ Cardinality(entries) = 1
                  /\ \A e \in entries : e.entry_type = "debit"
            /\ t.type \in {"transfer", "deposit", "withdrawal"}

\* C26 happens: a deposit, a withdrawal and a transfer are committed.
C26_Witness ==
    \A type \in {"transfer", "deposit", "withdrawal"} :
        \E t \in transactions : t.type = type

\* The two entries have the same transaction, account and entry type.
SameKey(e, f) ==
    /\ e.transaction_id = f.transaction_id
    /\ e.account_id = f.account_id
    /\ e.entry_type = f.entry_type

\* C27: in every reachable state there is at most one ledger entry per
\* (transaction_id, account_id, entry_type), and no step posts an entry whose
\* transaction, account and entry type an entry of the table already has: the
\* insert is rejected and its unit writes nothing.
C27_UniqueEntryPerKey ==
    /\ [](\A e \in ledger_entries : \A f \in ledger_entries :
             SameKey(e, f) => e = f)
    /\ [][\A n \in ledger_entries' \ ledger_entries :
             \A e \in ledger_entries : ~ SameKey(n, e)]_vars

\* C27 happens: a transaction has an entry, rows can still be written, and a
\* second entry of the same transaction and account, of the other type, was
\* accepted.
C27_Witness ==
    /\ Rows < MaxRows
    /\ \E e \in ledger_entries : \E f \in ledger_entries :
          /\ e.transaction_id = f.transaction_id
          /\ e.account_id = f.account_id
          /\ e.entry_type # f.entry_type

\* C29: completed_at is set exactly on completion. Every transaction row,
\* committed or held by a unit, has a completed_at if and only if its status
\* is completed; a transaction is created without one, and the step that
\* completes it sets the status and completed_at together.
C29_CompletedAtIffCompleted ==
    /\ \A t \in transactions \cup Uncommitted :
          t.completed_at <=> t.status = "completed"
    /\ \A type \in {"deposit", "withdrawal", "transfer"}, m \in Amounts,
          c \in Currencies :
          LET t == Transaction(next_uuid, type, m, c, NoAccount, NoAccount, NoAccount)
          IN  /\ t.status = "pending" /\ ~ t.completed_at
              /\ Completed(t).status = "completed" /\ Completed(t).completed_at

\* C29 happens: a completed transaction is committed and a unit holds another
\* one that its handler completed.
C29_Witness ==
    /\ \E t \in transactions : t.status = "completed" /\ t.completed_at
    /\ \E t \in Uncommitted : t.status = "completed"

\* ---------------------------------------------------------- the HTTP layer

\* An account id that uuid.UUID() does not accept.
InvalidUuid == "invalid-uuid"

\* Account ids a client may send.
RequestIds == AccountIds \cup {InvalidUuid}

\* The request models: amount = Field(..., gt=0) and
\* currency = Field(pattern="^[A-Z]{3}$"); a body they reject is answered 422
\* and the route function is not called.
request_valid(amount, currency) ==
    /\ amount > 0
    /\ currency \in {"USD", "EUR"}

\* except ValueError of the route functions: the errors raised as ValueError
\* (every error of the service but those of the database).
ValueError(r) == r.pc = "raised" /\ r.error # "IntegrityError"

\* create_deposit, lines 56-76: the try block (uuid.UUID, execute_deposit).
create_deposit(rows, id, account_id, amount, currency) ==
    IF account_id = InvalidUuid
    THEN Raised("deposit", "badly formed hexadecimal UUID string")
    ELSE deposit(rows, id, account_id, amount, currency)

\* create_withdrawal, lines 94-114: the try block.
create_withdrawal(rows, id, account_id, amount, currency) ==
    IF account_id = InvalidUuid
    THEN Raised("withdrawal", "badly formed hexadecimal UUID string")
    ELSE withdrawal(rows, id, account_id, amount, currency)

\* create_transfer, lines 53-79: the try block.
create_transfer(rows, id, source_account_id, destination_account_id, amount, currency) ==
    IF InvalidUuid \in {source_account_id, destination_account_id}
    THEN Raised("transfer", "badly formed hexadecimal UUID string")
    ELSE transfer(rows, id, source_account_id, destination_account_id,
                  amount, currency)

\* create_deposit, status_code=201 and lines 78-87: the status of the response.
deposit_status(r) ==
    IF r.pc = "returned" THEN 201
    ELSE IF ValueError(r) THEN 400
    ELSE 500

\* Variant: insufficient funds are answered like every other ValueError.
withdrawal_status_without_422(r) ==
    IF r.pc = "returned" THEN 201
    ELSE IF ValueError(r) THEN 400
    ELSE 500

\* create_withdrawal, status_code=201 and lines 116-131.
withdrawal_status(r) ==
    IF r.pc = "returned" THEN 201
    ELSE IF ValueError(r)
         THEN IF r.error = "Insufficient funds" THEN 422 ELSE 400
    ELSE 500

\* create_transfer, status_code=201 and lines 81-100.
transfer_status(r) ==
    IF r.pc = "returned" THEN 201
    ELSE IF ValueError(r)
         THEN IF r.error = "Insufficient funds" THEN 422 ELSE 400
    ELSE 500

\* The response of client k to its request op, and the session the route
\* function leaves to get_db.
Respond(k, op, status, r) ==
    /\ session' = [session EXCEPT ![k] = r]
    /\ results' = {x \in results : x[1] # k} \cup {<<k, op, status>>}
    /\ requests' = requests + 1
    /\ next_uuid' = IF r.txn = {} THEN next_uuid ELSE next_uuid + 1
    /\ DbUnchanged

\* A body the request model rejects: 422, no route function, no session.
Unprocessable(k, op) ==
    /\ results' = {x \in results : x[1] # k} \cup {<<k, op, 422>>}
    /\ requests' = requests + 1
    /\ DbUnchanged
    /\ UNCHANGED <<session, next_uuid>>

\* A request reaches worker s: the first free one, as in Handle.
Accept(s) ==
    /\ session[s].pc = "idle"
    /\ \A t \in Sessions : t < s => session[t].pc # "idle"
    /\ requests < MaxReq

\* POST /api/v1/deposits.
post_deposits(s, account_id, amount, currency) ==
    /\ Accept(s)
    /\ IF ~ request_valid(amount, currency) THEN Unprocessable(s, "deposit")
       ELSE LET r == create_deposit(ledger_entries, next_uuid, account_id,
                                    amount, currency)
            IN  Respond(s, "deposit", deposit_status(r), r)

\* POST /api/v1/withdrawals.
post_withdrawals(s, account_id, amount, currency) ==
    /\ Accept(s)
    /\ IF ~ request_valid(amount, currency) THEN Unprocessable(s, "withdrawal")
       ELSE LET r == create_withdrawal(ledger_entries, next_uuid, account_id,
                                       amount, currency)
            IN  Respond(s, "withdrawal", withdrawal_status(r), r)

\* POST /api/v1/transfers/.
post_transfers(s, source_account_id, destination_account_id, amount, currency) ==
    /\ Accept(s)
    /\ IF ~ request_valid(amount, currency) THEN Unprocessable(s, "transfer")
       ELSE LET r == create_transfer(ledger_entries, next_uuid, source_account_id,
                                     destination_account_id, amount, currency)
            IN  Respond(s, "transfer", transfer_status(r), r)

PostDeposits ==
    \E s \in Sessions, a \in RequestIds, m \in AnyAmounts, c \in Currencies :
        post_deposits(s, a, m, c)

PostWithdrawals ==
    \E s \in Sessions, a \in RequestIds, m \in AnyAmounts, c \in Currencies :
        post_withdrawals(s, a, m, c)

PostTransfers ==
    \E s \in Sessions, a \in RequestIds, b \in RequestIds,
       m \in AnyAmounts, c \in Currencies :
        post_transfers(s, a, b, m, c)

NextHttp ==
    \/ PostDeposits
    \/ PostWithdrawals
    \/ PostTransfers
    \/ CommitUnit
    \/ RollbackUnit
    \/ upgrade

SpecHttp == InitInputs /\ [][NextHttp]_vars

\* The validation failures of the service, and the id that is not a UUID.
ValidationFailures ==
    {"Source and destination accounts cannot be the same",
     "Deposit amount must be positive", "Withdrawal amount must be positive",
     "Transfer amount must be positive",
     "Account does not exist", "Source account does not exist",
     "Destination account does not exist",
     "Account is not active", "Source account is not active",
     "Destination account is not active",
     "Account currency does not match", "Source account currency does not match",
     "Destination account currency does not match",
     "badly formed hexadecimal UUID string"}

\* The status the outcome r of a route function's try block is to be answered
\* with.
ExpectedStatus(op, r) ==
    IF r.pc = "returned" THEN 201
    ELSE IF r.error = "Insufficient funds" /\ op \in {"withdrawal", "transfer"}
    THEN 422
    ELSE IF r.error \in ValidationFailures THEN 400
    ELSE 500

\* C30: the HTTP layer maps the outcome of the service to the status of the
\* response. Success of POST /deposits, /withdrawals and /transfers gives 201;
\* insufficient funds of a withdrawal or a transfer give 422; every other
\* validation failure of the service (same account, missing account, inactive
\* account, currency mismatch, non-positive amount) and an account id that is
\* not a UUID give 400; an exception that is not a validation failure gives
\* 500. This holds of every outcome the service has on any arguments, and of
\* the response every request in flight was given.
C30_StatusOfOutcome ==
    /\ \A a \in RequestIds, m \in AnyAmounts, c \in Currencies :
          /\ LET r == create_deposit(ledger_entries, next_uuid, a, m, c)
             IN  deposit_status(r) = ExpectedStatus("deposit", r)
          /\ LET r == create_withdrawal(ledger_entries, next_uuid, a, m, c)
             IN  withdrawal_status(r) = ExpectedStatus("withdrawal", r)
          /\ \A b \in RequestIds :
                LET r == create_transfer(ledger_entries, next_uuid, a, b, m, c)
                IN  transfer_status(r) = ExpectedStatus("transfer", r)
    /\ \A x \in results :
          (session[x[1]].pc # "idle" /\ session[x[1]].op = x[2])
             => x[3] = ExpectedStatus(x[2], session[x[1]])

\* C30 happens: one request in flight was answered 422 for insufficient
\* funds and another one 400 for a validation failure of the service.
C30_Witness ==
    \E x \in results : \E y \in results :
        /\ x[3] = 422
        /\ session[x[1]].pc = "raised"
        /\ session[x[1]].error = "Insufficient funds"
        /\ y[3] = 400
        /\ session[y[1]].pc = "raised"
        /\ session[y[1]].error \in ValidationFailures

\* ------------------------------------------- concurrent requests on an account

\* The threads of the tests of concurrent requests, one request each.
Threads == 1..4

\* amounts = [100.00, 200.00, 300.00, 400.00], in units of 100.00: the amount
\* of thread k.
amounts == [k \in Threads |-> k]

\* The balance the account starts with, in units of 100.00: the 1000.00 of
\* the tests, the sum of the amounts, and a balance that does not cover them.
Balances == {10, 6}

\* The account holds its starting balance, deposited and committed before
\* the threads start, on a database at revision 002 or at revision 003.
InitRace ==
    /\ accounts = [a \in {"a1", "a2", "a3", "a4"} |->
                     [status   |-> IF a = "a3" THEN "frozen" ELSE "active",
                      currency |-> IF a = "a4" THEN "EUR" ELSE "USD"]]
    /\ \E b \in Balances :
          /\ transactions = {Completed(Transaction(1, "deposit", b, "USD", "a1",
                                                   NoAccount, NoAccount))}
          /\ ledger_entries = {deposit_entry(1, "a1", b)}
    /\ enforce_double_entry_balance \in BOOLEAN
    /\ session = [k \in Threads |-> Idle]
    /\ requests = 0
    /\ next_uuid = 2
    /\ created_at = <<>>
    /\ results = {}

\* The thread has not made its request.
NotStarted(k) ==
    /\ session[k].pc = "idle"
    /\ \A x \in results : x[1] # k

\* make_withdrawal(amount) of test_concurrent_api_requests: POST /withdrawals
\* on the account.
make_withdrawal(k) ==
    /\ NotStarted(k)
    /\ LET r == create_withdrawal(ledger_entries, next_uuid, "a1", amounts[k], "USD")
       IN  Respond(k, "withdrawal", withdrawal_status(r), r)

\* make_transfer(amount) of test_concurrent_transfers, as a request of its
\* own: a transfer from the account to another one.
make_transfer(k) ==
    /\ NotStarted(k)
    /\ LET r == create_transfer(ledger_entries, next_uuid, "a1", "a2", amounts[k], "USD")
       IN  Respond(k, "transfer", transfer_status(r), r)

MakeWithdrawal == \E k \in Threads : make_withdrawal(k)

MakeTransfer == \E k \in Threads : make_transfer(k)

CommitThread == \E k \in Threads : Commit(k)

RollbackThread == \E k \in Threads : Rollback(k)

NextRace ==
    \/ MakeWithdrawal
    \/ MakeTransfer
    \/ CommitThread
    \/ RollbackThread

SpecRace == InitRace /\ [][NextRace]_vars

\* The balance the account started with: the amount of the first deposit.
StartingBalance == CHOOSE b \in Balances : \E t \in transactions : t.id = 1 /\ t.amount = b

\* Every request made so far is a request op.
Only(op) == \A x \in results : x[2] = op

\* The four threads made their request op and every unit has ended.
RaceOver(op) ==
    /\ Only(op)
    /\ \A k \in Threads : session[k].pc = "idle" /\ \E x \in results : x[1] = k

\* The sum of the amounts of the threads K.
RECURSIVE SumOfAmounts(_)
SumOfAmounts(K) ==
    IF K = {} THEN 0
    ELSE LET k == CHOOSE j \in K : TRUE
         IN  amounts[k] + SumOfAmounts(K \ {k})

\* The threads whose request succeeded.
Succeeded == {k \in Threads : \E x \in results : x[1] = k /\ x[3] = 201}

\* C22: among concurrent withdrawals on one account, the withdrawals that
\* succeed have amounts that sum to at most the starting balance; a
\* withdrawal is rejected only when the funds left at its turn are less than
\* its amount; and when all are over the balance is the starting balance
\* minus the sum of the successful amounts, and is >= 0.
C22_ConcurrentWithdrawals ==
    Only("withdrawal") =>
        /\ SumOfAmounts(Succeeded) <= StartingBalance
        /\ \A x \in results :
              (x[3] # 201 /\ session[x[1]].pc = "raised")
                 => /\ x[3] = 422
                    /\ session[x[1]].detail[1] < amounts[x[1]]
                    /\ account_balances("a1") < amounts[x[1]]
        /\ RaceOver("withdrawal") =>
              /\ account_balances("a1") = StartingBalance - SumOfAmounts(Succeeded)
              /\ account_balances("a1") >= 0

\* C23: concurrent transfers that debit one source whose balance is exactly
\* the sum of their amounts all succeed, in every interleaving; when they are
\* over the source holds 0 and the destination the sum of the amounts.
C23_ConcurrentTransfers ==
    (Only("transfer") /\ StartingBalance = SumOfAmounts(Threads)) =>
        /\ \A x \in results : x[3] = 201
        /\ RaceOver("transfer") =>
              /\ account_balances("a1") = 0
              /\ account_balances("a2") = SumOfAmounts(Threads)

\* C23 happens: the four transfers are over, on a source that held exactly
\* their sum, with the trigger of revision 003 in force.
C23_Witness ==
    /\ RaceOver("transfer")
    /\ StartingBalance = 10
    /\ enforce_double_entry_balance
    /\ Cardinality(transactions) = 5

MaxUnits == 2

\* Transactions one unit creates before it ends.
MaxWrites == 2

\* The accounts the calls of these units name.
UnitAccounts == {"a1"}

\* The amounts of the deposits and withdrawals of these units.
UnitAmounts == {1}

\* The snapshot and the start time of the unit of session s: those of its
\* first query, or the present ones when this call is its first.
begin(s) ==
    IF session[s].snapshot # <<>> THEN session[s].snapshot[1]
    ELSE [transactions |-> transactions, ledger_entries |-> ledger_entries,
          now |-> requests]

\* Variant: READ COMMITTED, every query sees the rows committed so far.
visible_entries_read_committed(s) ==
    ledger_entries \cup session[s].flushed \cup session[s].pending

\* isolation_level="REPEATABLE_READ": the ledger entries a query of the unit
\* sees are those of its snapshot and the unit's own, which the session of
\* the tests writes before it queries.
visible_entries(s) ==
    begin(s).ledger_entries \cup session[s].flushed \cup session[s].pending

\* The same for the rows of table transactions.
visible_transactions(s) ==
    begin(s).transactions \cup session[s].txn

\* A call can be made in session s: a new unit on the first free worker, or
\* a unit whose last call returned.
CanCall(s) ==
    \/ Accept(s) /\ requests < MaxUnits
    \/ session[s].pc = "returned"

\* The session after a call that read `result` and wrote nothing.
Read(s, result) ==
    /\ CanCall(s)
    /\ session' = [session EXCEPT ![s] =
                      [@ EXCEPT !.pc = "returned", !.op = result[1],
                                !.detail = result, !.snapshot = <<begin(s)>>]]
    /\ requests' = IF session[s].pc = "idle" THEN requests + 1 ELSE requests
    /\ DbUnchanged
    /\ UNCHANGED <<next_uuid, results>>

\* AccountService.get_account_with_balance: the balance of the account.
get_account_with_balance(s, account_id) ==
    Read(s, <<"balance", account_id,
              calculate_balance(visible_entries(s), account_id)>>)

\* Variant: get_transaction commits what the session holds.
get_transaction_committing(s, transaction_id) ==
    /\ CanCall(s)
    /\ session' = [session EXCEPT ![s] =
                      [@ EXCEPT !.pc = "returned", !.op = "transaction",
                                !.detail = <<"transaction", transaction_id,
                                             {t \in visible_transactions(s) :
                                                 t.id = transaction_id}>>,
                                !.snapshot = <<begin(s)>>]]
    /\ requests' = IF session[s].pc = "idle" THEN requests + 1 ELSE requests
    /\ transactions' = transactions \cup session[s].txn
    /\ ledger_entries' = ledger_entries \cup Inserted(s)
    /\ UNCHANGED <<accounts, enforce_double_entry_balance, created_at,
                   next_uuid, results>>

\* TransactionService.get_transaction, lines 257-263: the row with that id,
\* or none.
get_transaction(s, transaction_id) ==
    Read(s, <<"transaction", transaction_id,
              {t \in visible_transactions(s) : t.id = transaction_id}>>)

\* ORDER BY created_at DESC: the sequences that list the entries E once each,
\* newest first; entries of equal created_at come in any order.
RECURSIVE newest_first(_)
newest_first(E) ==
    IF E = {} THEN {<<>>}
    ELSE UNION {{<<e>> \o q : q \in newest_first(E \ {e})} :
                  e \in {x \in E : \A y \in E :
                                      created_at[x.id] >= created_at[y.id]}}

\* LedgerService.get_account_ledger: the entries of the account, newest first.
get_account_ledger(s, account_id) ==
    \E q \in newest_first({e \in visible_entries(s) : e.account_id = account_id}) :
        Read(s, <<"ledger", account_id, q>>)

\* A call of the service in session s that leaves r. When it returns, the
\* unit keeps what it held, create_transaction's flush writes what was
\* pending, and the rows inserted take CURRENT_TIMESTAMP, the time the unit's
\* transaction began. When it raises, the unit is left to be rolled back.
Write(s, r) ==
    /\ CanCall(s)
    /\ Cardinality(session[s].txn) < MaxWrites
    /\ session' = [session EXCEPT ![s] =
          IF r.pc = "raised" THEN r
          ELSE [@ EXCEPT !.pc = r.pc, !.op = r.op, !.detail = r.detail,
                         !.txn = @ \cup r.txn,
                         !.flushed = @ \cup session[s].pending \cup r.flushed,
                         !.pending = r.pending,
                         !.snapshot = <<begin(s)>>]]
    /\ created_at' = [id \in DOMAIN created_at \cup
                              {e.id : e \in r.flushed \cup r.pending} |->
                        IF id \in DOMAIN created_at THEN created_at[id]
                        ELSE begin(s).now]
    /\ requests' = IF session[s].pc = "idle" THEN requests + 1 ELSE requests
    /\ next_uuid' = IF r.txn = {} THEN next_uuid ELSE next_uuid + 1
    /\ UNCHANGED <<accounts, transactions, ledger_entries,
                   enforce_double_entry_balance, results>>

\* TransactionService.execute_deposit called in session s.
unit_execute_deposit(s, account_id, amount, currency) ==
    Write(s, deposit(visible_entries(s), next_uuid, account_id, amount, currency))

\* TransactionService.execute_withdrawal called in session s.
unit_execute_withdrawal(s, account_id, amount, currency) ==
    Write(s, withdrawal(visible_entries(s), next_uuid, account_id, amount, currency))

GetAccountWithBalance ==
    \E s \in Sessions, a \in UnitAccounts : get_account_with_balance(s, a)

GetTransaction ==
    \E s \in Sessions, id \in 1..MaxWrites : get_transaction(s, id)

GetAccountLedger ==
    \E s \in Sessions, a \in UnitAccounts : get_account_ledger(s, a)

UnitDeposit ==
    \E s \in Sessions, a \in UnitAccounts, m \in UnitAmounts :
        unit_execute_deposit(s, a, m, "USD")

UnitWithdrawal ==
    \E s \in Sessions, a \in UnitAccounts, m \in UnitAmounts :
        unit_execute_withdrawal(s, a, m, "USD")

NextUnit ==
    \/ GetAccountWithBalance
    \/ GetTransaction
    \/ GetAccountLedger
    \/ UnitDeposit
    \/ UnitWithdrawal
    \/ CommitUnit
    \/ RollbackUnit

SpecUnit == Init /\ [][NextUnit]_vars

\* C21: a unit reads under REPEATABLE READ. The balance a unit computed for
\* an account does not change because another unit committed entries of that
\* account after this unit started reading: as long as the unit writes
\* nothing itself, reading the balance again returns the value it read
\* before, and the funds check of a withdrawal it then makes is made on that
\* value.
C21_RepeatableRead ==
    /\ [](\A s \in Sessions, a \in UnitAccounts :
            session[s].pc = "returned" /\ session[s].op = "balance"
               /\ session[s].detail[2] = a
               => calculate_balance(visible_entries(s), a) = session[s].detail[3])
    /\ [][\A s \in Sessions, a \in UnitAccounts :
            (/\ session[s].pc = "returned" /\ session[s].op = "balance"
             /\ session[s].detail[2] = a
             /\ session'[s].pc = "raised"
             /\ session'[s].error = "Insufficient funds")
            => session'[s].detail[1] = session[s].detail[3]
         ]_vars

\* C21 happens: a unit read the balance of an account, and the committed
\* entries of that account now give another balance: another unit committed
\* after this unit started reading.
C21_Witness ==
    \E s \in Sessions, a \in UnitAccounts :
        /\ session[s].pc = "returned" /\ session[s].op = "balance"
        /\ session[s].detail[2] = a
        /\ account_balances(a) # session[s].detail[3]
        /\ NoWrites(session[s])

\* The last call of session s was one of the three reads.
IsRead(r) == r.pc = "returned" /\ r.op \in {"balance", "transaction", "ledger"}

\* C25: reads are idempotent and read-only. Two calls of
\* get_account_with_balance on one account with no committed write between
\* them return the same balance, and no call of get_transaction,
\* get_account_with_balance or get_account_ledger changes an account, a
\* transaction or a ledger entry, committed or held by the unit.
C25_ReadsChangeNothing ==
    /\ [](\A s \in Sessions, r \in Sessions, a \in UnitAccounts :
            (/\ session[s].pc = "returned" /\ session[s].op = "balance"
             /\ session[r].pc = "returned" /\ session[r].op = "balance"
             /\ session[s].detail[2] = a /\ session[r].detail[2] = a
             /\ NoWrites(session[s]) /\ NoWrites(session[r])
             /\ begin(s).ledger_entries = begin(r).ledger_entries)
            => session[s].detail[3] = session[r].detail[3])
    /\ [][\A s \in Sessions :
            (IsRead(session'[s]) /\ session'[s] # session[s])
            => /\ accounts' = accounts
               /\ transactions' = transactions
               /\ ledger_entries' = ledger_entries
               /\ session'[s].txn = session[s].txn
               /\ Inserted(s)' = Inserted(s)
         ]_vars

\* C25 happens: a unit that holds a transaction of its own read it back with
\* get_transaction, while another unit read the balance of an account.
C25_Witness ==
    \E s \in Sessions, r \in Sessions :
        /\ s # r
        /\ session[s].pc = "returned" /\ session[s].op = "transaction"
        /\ session[s].detail[3] # {}
        /\ session[s].txn # {}
        /\ session[r].pc = "returned" /\ session[r].op = "balance"

\* C28: get_account_ledger lists the entries of an account newest first:
\* after execute_deposit followed by execute_withdrawal on the account, the
\* debit of the withdrawal comes before the credit of the deposit in the
\* list, also when the two calls were made in one session and one database
\* transaction.
C28_LedgerNewestFirst ==
    \A s \in Sessions :
        (session[s].pc = "returned" /\ session[s].op = "ledger") =>
            LET q == session[s].detail[3]
            IN  \A i \in DOMAIN q : \A j \in DOMAIN q :
                   (/\ q[i].entry_type = "credit"
                    /\ q[j].entry_type = "debit"
                    /\ q[j].transaction_id > q[i].transaction_id)
                   => j < i

\* ------------------------------------------------ verification and discard

\* The signed sum of the entries of transaction id among rows, from the raw
\* rows: credits minus debits.
Imbalance(rows, id) ==
    SumAmount({e \in EntriesOf(rows, id) : e.entry_type = "credit"})
      - SumAmount({e \in EntriesOf(rows, id) : e.entry_type = "debit"})

delete_account_unrestricted(id) ==
    /\ id \in DOMAIN accounts
    /\ accounts' = [a \in DOMAIN accounts \ {id} |-> accounts[a]]
    /\ UNCHANGED <<transactions, ledger_entries, enforce_double_entry_balance,
                   session, requests, next_uuid, created_at, results>>

\* DELETE FROM accounts WHERE id = :id, which ledger_entries_account_id_fkey
\* (ON DELETE RESTRICT) rejects while an entry references the row.
delete_account(id) ==
    /\ id \in DOMAIN accounts
    /\ ~ \E e \in ledger_entries : e.account_id = id
    /\ accounts' = [a \in DOMAIN accounts \ {id} |-> accounts[a]]
    /\ UNCHANGED <<transactions, ledger_entries, enforce_double_entry_balance,
                   session, requests, next_uuid, created_at, results>>

\* DELETE FROM transactions WHERE id = :id, which
\* ledger_entries_transaction_id_fkey (ON DELETE RESTRICT) rejects while an
\* entry references the row.
delete_transaction(id) ==
    /\ \E t \in transactions : t.id = id
    /\ ~ \E e \in ledger_entries : e.transaction_id = id
    /\ transactions' = {t \in transactions : t.id # id}
    /\ UNCHANGED <<accounts, ledger_entries, enforce_double_entry_balance,
                   session, requests, next_uuid, created_at, results>>

\* The accounts whose rows are written and deleted; "a9" names no row.
StoreAccounts == {"a1", "a2", "a9"}

StoreTransaction == insert_transaction(1)

StoreEntry ==
    \E a \in StoreAccounts, t \in 1..MaxRows, k \in {"debit", "credit"} :
        insert_entry(a, t, k, 1)

DeleteAccount == \E a \in StoreAccounts : delete_account(a)

DeleteTransaction == \E t \in 1..MaxRows : delete_transaction(t)

NextStore ==
    \/ StoreTransaction
    \/ StoreEntry
    \/ DeleteAccount
    \/ DeleteTransaction

SpecStore == Init /\ [][NextStore]_vars

\* C32: referential integrity. In every committed state each ledger entry
\* references an existing account and an existing transaction, and no step
\* deletes an account or a transaction that an entry references: after the
\* step the account and the transaction of every entry are still there.
C32_ReferentialIntegrity ==
    /\ [](\A e \in ledger_entries :
             /\ e.account_id \in DOMAIN accounts
             /\ \E t \in transactions : t.id = e.transaction_id)
    /\ [][\A e \in ledger_entries :
             /\ e.account_id \in DOMAIN accounts'
             /\ accounts'[e.account_id] = accounts[e.account_id]
             /\ \E t \in transactions : t.id = e.transaction_id /\ t \in transactions'
         ]_vars

\* C32 happens: an account and a transaction without entries were deleted
\* while entries of another account and another transaction are stored.
C32_Witness ==
    /\ \E a \in StoreAccounts \ {"a9"} : a \notin DOMAIN accounts
    /\ Cardinality(transactions) < next_uuid - 1
    /\ ledger_entries # {}

\* C33: every committed transfer carries the ids of its source and of its
\* destination account (its metadata); each of its debit entries is on exactly
\* the source account and each of its credit entries on exactly the
\* destination account, it has one of each, and the two ids differ.
C33_MetadataMatchesEntries ==
    \A t \in transactions :
        t.type = "transfer" =>
           /\ t.source_account_id \in DOMAIN accounts
           /\ t.destination_account_id \in DOMAIN accounts
           /\ t.source_account_id # t.destination_account_id
           /\ \A e \in EntriesOf(ledger_entries, t.id) :
                 /\ e.entry_type = "debit" => e.account_id = t.source_account_id
                 /\ e.entry_type = "credit" => e.account_id = t.destination_account_id
           /\ \E e \in EntriesOf(ledger_entries, t.id) : e.entry_type = "debit"
           /\ \E e \in EntriesOf(ledger_entries, t.id) : e.entry_type = "credit"

\* C33 happens: two transfers are committed, one in each direction between
\* two accounts.
C33_Witness ==
    \E t \in transactions : \E u \in transactions :
        /\ t.type = "transfer"
        /\ u.type = "transfer"
        /\ u.source_account_id = t.destination_account_id
        /\ u.destination_account_id = t.source_account_id

\* ------------------------------------------- a transfer from an empty account

\* Two distinct active USD accounts.
ActiveUsdPair(a, b) ==
    /\ a # b
    /\ ValidAccount(a, "USD")
    /\ ValidAccount(b, "USD")

C35_OnlyCompletedPersisted ==
    /\ [](/\ \A t \in transactions : t.status = "completed"
          /\ \A t \in transactions : t.status \notin {"pending", "failed"}
          /\ \A t \in Uncommitted : t.status \in {"pending", "completed"})
    /\ [][\A s \in Sessions :
            (session[s].pc = "raised" /\ session'[s].pc = "idle")
               => transactions' = transactions
         ]_vars

\* C35 happens: attempts failed (a handler raised, and a unit whose COMMIT
\* raises ended) while a completed transaction is committed.
C35_Witness ==
    /\ \E t \in transactions : t.status = "completed"
    /\ \E s \in Sessions : session[s].pc = "raised"
    /\ Cardinality(transactions) < next_uuid - 1 - Cardinality(Uncommitted)

\* ------------------------------------------------------ conservation of value

\* The sum of the balances of the accounts of A, each taken from the view
\* account_balances.
RECURSIVE SumBalances(_)
SumBalances(A) ==
    IF A = {} THEN 0
    ELSE LET a == CHOOSE x \in A : TRUE
         IN  account_balances(a) + SumBalances(A \ {a})

\* The committed completed transactions of one type.
CompletedOf(type) ==
    {t \in transactions : t.type = type /\ t.status = "completed"}

\* C36: conservation of value. In every committed state the sum of the
\* balances of all accounts equals the sum of the amounts of the completed
\* deposits minus the sum of the amounts of the completed withdrawals; and the
\* step that commits a transfer leaves the sum of all balances unchanged.
C36_ConservationOfValue ==
    /\ [](SumBalances(DOMAIN accounts)
            = SumAmount(CompletedOf("deposit")) - SumAmount(CompletedOf("withdrawal")))
    /\ [][\A s \in Sessions :
            (session[s].op = "transfer" /\ session'[s].pc = "idle")
               => SumBalances(DOMAIN accounts)' = SumBalances(DOMAIN accounts)
         ]_vars

\* C36 happens: a deposit, a withdrawal and a transfer are committed.
C36_Witness ==
    /\ CompletedOf("deposit") # {}
    /\ CompletedOf("withdrawal") # {}
    /\ CompletedOf("transfer") # {}

\* -------------------------------------------- the order of a transfer's checks

\* The first check that fails for a transfer of m in currency c from a to b in
\* the committed state, in the order: same account, amount, source exists,
\* source active, destination exists, destination active, source currency,
\* destination currency, source funds; "none" when every check passes.
TransferFirstFailing(a, b, m, c) ==
    CASE a = b -> "Source and destination accounts cannot be the same"
      [] a # b /\ m <= 0 -> "Transfer amount must be positive"
      [] OTHER ->
         IF a \notin DOMAIN accounts THEN "Source account does not exist"
         ELSE IF accounts[a].status # "active" THEN "Source account is not active"
         ELSE IF b \notin DOMAIN accounts THEN "Destination account does not exist"
         ELSE IF accounts[b].status # "active"
              THEN "Destination account is not active"
         ELSE IF accounts[a].currency # upper(c)
              THEN "Source account currency does not match"
         ELSE IF accounts[b].currency # upper(c)
              THEN "Destination account currency does not match"
         ELSE IF account_balances(a) < m THEN "Insufficient funds"
         ELSE "none"

TransferCheckErrors ==
    {"Source and destination accounts cannot be the same",
     "Transfer amount must be positive",
     "Source account does not exist", "Source account is not active",
     "Destination account does not exist", "Destination account is not active",
     "Source account currency does not match",
     "Destination account currency does not match", "Insufficient funds"}

\* C37: a transfer raises the error of the first check that fails in the
\* order same account, amount > 0, source exists, source active, destination
\* exists, destination active, source currency, destination currency, source
\* funds, and raises none of these errors when every check passes; when one
\* of the two accounts is missing or not active the error is never a currency
\* error.
C37_TransferCheckOrder ==
    [](\A a \in AccountIds, b \in AccountIds, m \in Amounts, c \in Currencies :
          LET r     == transfer(ledger_entries, next_uuid, a, b, m, c)
              first == TransferFirstFailing(a, b, m, c)
          IN  /\ IF first # "none"
                 THEN r.pc = "raised" /\ r.error = first
                 ELSE r.error \notin TransferCheckErrors
              /\ ( \/ a \notin DOMAIN accounts
                   \/ b \notin DOMAIN accounts
                   \/ Inactive(a)
                   \/ Inactive(b) )
                    => r.error \notin {"Source account currency does not match",
                                       "Destination account currency does not match"})

\* C37 happens: one transfer was refused for the destination's currency and
\* another one, whose accounts passed every check, for the source's funds.
C37_Witness ==
    /\ \E s \in Sessions :
          /\ session[s].pc = "raised"
          /\ session[s].error = "Destination account currency does not match"
    /\ \E s \in Sessions :
          /\ session[s].pc = "raised"
          /\ session[s].op = "transfer"
          /\ session[s].error = "Insufficient funds"
          /\ session[s].detail[1] > 0

\* C38: no step of a deposit, a withdrawal or a transfer (the handler, whether
\* it returns or raises, and the commit or the rollback of its unit) modifies
\* an account record: the set of accounts and every account's columns are the
\* same after the step as before.
C38_AccountsUntouched ==
    [][/\ DOMAIN accounts' = DOMAIN accounts
       /\ \A a \in DOMAIN accounts :
             /\ accounts'[a].status = accounts[a].status
             /\ accounts'[a].currency = accounts[a].currency
             /\ DOMAIN accounts'[a] = DOMAIN accounts[a]
      ]_vars

\* C38 happens: a withdrawal was committed, a deposit raised, and the accounts
\* are as they were created.
C38_Witness ==
    /\ \E t \in transactions : t.type = "withdrawal"
    /\ \E s \in Sessions : session[s].pc = "raised" /\ session[s].op = "deposit"
    /\ \A a \in {"a1", "a2"} : accounts[a].status = "active"

\* ------------------------------------------------------- 201 and durability

\* Worker s holds a request whose route function returned the 201 response.
Created(s) ==
    /\ session[s].pc = "returned"
    /\ \E x \in results : x[1] = s /\ x[3] = 201

\* C39: a 201 response implies durability. Whenever a POST to /deposits,
\* /withdrawals or /transfers was answered with success and a completed
\* transaction, the end of its unit commits that transaction and its ledger
\* entries: the commit get_db performs after the route function returned
\* does not fail.
C39_CreatedImpliesDurable ==
    [][\A s \in Sessions :
         (Created(s) /\ session'[s].pc = "idle") =>
            /\ ~ CommitRaises(s)
            /\ session[s].txn \subseteq transactions'
            /\ Inserted(s) \subseteq ledger_entries'
            /\ \A t \in session[s].txn : t.status = "completed"
      ]_vars

\* ------------------------------------------- get_db, statement by statement

\* The calls a unit of SpecDb makes: deposits and withdrawals on an active and
\* on a frozen account, transfers between the two active USD accounts.
DbAccounts == {"a1", "a3"}

DbAmounts == {0, 1}

DbBody ==
    \E s \in Sessions, a \in DbAccounts, m \in DbAmounts :
        \/ execute_deposit(s, a, m, "USD")
        \/ execute_withdrawal(s, a, m, "USD")
        \/ execute_transfer(s, "a1", "a2", m, "USD")

\* Variant: an error of COMMIT is swallowed and the unit counts as committed.
db_commit_unchecked(s) ==
    /\ session[s].pc = "returned"
    /\ transactions' = transactions \cup persisted_transactions(s)
    /\ ledger_entries' = ledger_entries \cup persisted_entries(s)
    /\ session' = [session EXCEPT ![s].pc = "committed"]
    /\ UNCHANGED <<accounts, enforce_double_entry_balance, requests, next_uuid,
                   created_at, results>>

\* db.commit(), lines 34 and 46, reached when the body raised nothing: the
\* rows of the unit are stored, or COMMIT raises and stores nothing.
db_commit(s) ==
    /\ session[s].pc = "returned"
    /\ transactions' = transactions \cup persisted_transactions(s)
    /\ ledger_entries' = ledger_entries \cup persisted_entries(s)
    /\ session' = IF CommitRaises(s)
                  THEN [session EXCEPT ![s].pc = "commit_raised",
                                       ![s].error = "InternalError"]
                  ELSE [session EXCEPT ![s].pc = "committed"]
    /\ UNCHANGED <<accounts, enforce_double_entry_balance, requests, next_uuid,
                   created_at, results>>

\* except Exception: db.rollback(), lines 35-36 and 47-48: the body or the
\* commit raised; the rows of the unit are discarded.
db_rollback(s) ==
    /\ session[s].pc \in {"raised", "commit_raised"}
    /\ session' = [session EXCEPT ![s].pc = "rolled_back", ![s].txn = {},
                                  ![s].flushed = {}, ![s].pending = {}]
    /\ DbUnchanged
    /\ UNCHANGED <<requests, next_uuid, results>>

\* raise, lines 38 and 49, and finally: db.close(), lines 39-40 and 50-52: the
\* caller gets the exception, or nothing when the unit was committed.
db_close(s) ==
    /\ session[s].pc \in {"committed", "rolled_back"}
    /\ results' = {x \in results : x[1] # s} \cup
                     {<<s, session[s].op,
                        IF session[s].pc = "committed" THEN "none"
                        ELSE session[s].error>>}
    /\ session' = [session EXCEPT ![s] = Idle]
    /\ DbUnchanged
    /\ UNCHANGED <<requests, next_uuid>>

DbCommit == \E s \in Sessions : db_commit(s)

DbRollback == \E s \in Sessions : db_rollback(s)

DbClose == \E s \in Sessions : db_close(s)

NextDb ==
    \/ DbBody
    \/ DbCommit
    \/ DbRollback
    \/ DbClose
    \/ upgrade

SpecDb == Init /\ [][NextDb]_vars

====
